---- MODULE Spec2Model ----
(***************************************************************************)
(* Zeus-Miner: the proof-of-work challenge/response exchange between the   *)
(* validator (src/neurons/validator.py) and the miner                      *)
(* (src/neurons/miner.py).                                                 *)
(*                                                                         *)
(* Numbers.  Python floats are modelled by exact integers:                 *)
(*   - a success rate is the pair [num, den];                              *)
(*   - an average response time is kept multiplied by ArtScale, so that    *)
(*     total / valid_responses is exact for every valid_responses;         *)
(*   - scores and efficiency are in micro-units (1.0 = 1000000),           *)
(*     avg_latency in thousandths of a millisecond, both truncated;        *)
(*   - int(b / 1.1) and int(b * 1.1) are computed as IEEE doubles compute  *)
(*     them (see IntDivFactor).                                            *)
(* A 32-byte little-endian number is the pair [hi, lo]: lo is the value of *)
(* its first 4 bytes, hi stands for the remaining 28 bytes (HiOnes = all   *)
(* of them 0xff).                                                          *)
(***************************************************************************)
EXTENDS Integers, Sequences, FiniteSets, TLC

VARIABLES
    \* ---- validator (Validator.__init__, validator.py:47-69)
    base_difficulty,          \* self.base_difficulty
    challenge_history,        \* self.challenge_history
    miner_performance,        \* self.miner_performance: uid -> record
    current_challenge_type,   \* self.current_challenge_type
    v_scrypt,                 \* whether "import scrypt" succeeds in the validator process
    regime,                   \* environment: how the workers have answered so far
    fed,                      \* environment: the direction of the adjustments made by fed histories
    vlog                      \* what the last validator operation saw and returned

vvars == <<base_difficulty, challenge_history, miner_performance,
           current_challenge_type, v_scrypt, regime, fed, vlog>>

VARIABLES
    \* ---- miner (Miner.__init__, miner.py:44-63)
    use_software_mining,      \* self.use_software_mining
    total_hashes,             \* self.total_hashes
    shares_found,             \* self.shares_found
    m_scrypt,                 \* whether "import scrypt" succeeds in the miner process
    mpc,                      \* where the request being handled stands
    req,                      \* the request being handled (or the last one handled)
    nonce,                    \* software_mine's local nonce
    elapsed,                  \* seconds since forward (or the direct call) started
    resp,                     \* the response forward returned last
    served,                   \* requests received so far
    device_failed,            \* a device connection failure happened in this session
    mlog                      \* what the handling of the request did so far

mvars == <<use_software_mining, total_hashes, shares_found, m_scrypt, mpc, req,
           nonce, elapsed, resp, served, device_failed, mlog>>

VARIABLES
    \* ---- device client (CGMinerAPI, cgminer_api.py:26-80)
    cpc,                      \* where the call of _query_with_retry stands
    attempt,                  \* the loop variable of _query_with_retry
    last_exception,           \* its last_exception
    calls,                    \* calls of _query_with_retry so far
    clog                      \* what the call did so far

cvars == <<cpc, attempt, last_exception, calls, clog>>

VARIABLES
    \* ---- access control of the miner (Miner.blacklist, Miner.priority)
    metagraph,                \* self.metagraph: hotkeys, validator_permit, S
    alog                      \* the last call of blacklist or priority and its result

avars == <<metagraph, alog>>

VARIABLES
    \* ---- the calls of Validator.forward in flight (validator.py:288-368)
    fwd,                      \* each call's position and local variables
    rlog                      \* what the last step of a call did

rvars == <<fwd, rlog>>

vars == <<vvars, mvars, cvars, avars, rvars>>

----------------------------------------------------------------------------
(* Bounds of the model *)

\* The nonce space [0, 2^32) of miner.py:103 and validator.py:207, scaled.
max_nonce == 4

\* The value of 28 bytes of 0xff, scaled.
HiOnes == 2

\* Rounds of one behaviour.
MaxLongRounds == 36

\* Workers that, in the last round of a behaviour, answer differently from the
\* others.
MaxDeviants == 1

\* Changes of direction of the difficulty in a run of fed histories.
MaxTurns == 1

\* Requests a miner session receives.
MaxRequests == 2

\* The clock stops advancing this many seconds into a request.
MaxElapsed == 12

\* Rounds of a validator whose history is watched, and rounds in which one
\* worker is probed.
MaxHistoryRounds == 102

MaxProbeRounds == 3

\* Calls of forward that can be in flight together, and rounds followed step
\* by step.
MaxForwards == 2

MaxStepRounds == 2

\* Calls of the device client, and JSON objects in one read.
MaxCalls == 2

MaxObjects == 2

\* Neurons in the registry.
MaxNeurons == 2

\* The number of hashes between two yields of the search (1000 on
\* miner.py:116), scaled as the nonce space is.
yield_interval == 2

\* Header randomness (os.urandom, validator.py:102-103).
HeaderSeeds == {0, 1}

\* The nonces workers claim when they do not search honestly.
ClaimNonces == {0, 1}

----------------------------------------------------------------------------
(* Program constants *)

initial_base_difficulty == 65535
difficulty_factor_num == 11
difficulty_factor_den == 10
max_difficulty == 255
min_difficulty == 16777215
history_cap == 100
NumWorkers == 3

Workers == 0 .. (NumWorkers - 1)
challenge_types == {"standard", "high_difficulty", "time_pressure", "efficiency_test"}

Min(a, b) == IF a < b THEN a ELSE b
Max(a, b) == IF a > b THEN a ELSE b

RECURSIVE Factorial(_)
Factorial(n) == IF n <= 1 THEN 1 ELSE n * Factorial(n - 1)

\* avg_response_time is stored times ArtScale; success rates are compared in
\* units of 1/RateDen.
ArtScale == Factorial(NumWorkers)
RateDen == 10 * NumWorkers

----------------------------------------------------------------------------
(* DifficultyController: Validator.get_current_difficulty *)

\* The largest power of two that is <= n (n >= 1).
RECURSIVE Pow2Floor(_)
Pow2Floor(n) == IF n < 2 THEN 1 ELSE 2 * Pow2Floor(n \div 2)

\* int(b / 1.1).  1.1 is the double 0x3FF199999999999A, a little above 11/10,
\* so for b = 11k the quotient lies a little below 10k and the division rounds
\* to 10k only in the lower part of 10k's binade: int() then gives 10k or 10k-1.
IntDivFactor(b) ==
    IF b % difficulty_factor_num = 0
    THEN LET n == difficulty_factor_den * (b \div difficulty_factor_num)
         IN  IF n > 0 /\ 8 * n >= 11 * Pow2Floor(n) THEN n - 1 ELSE n
    ELSE (difficulty_factor_den * b) \div difficulty_factor_num

\* int(b * 1.1): the product lies at or above 11b/10, never below an integer.
IntMulFactor(b) == (difficulty_factor_num * b) \div difficulty_factor_den

LastN(s, n) == IF Len(s) <= n THEN s ELSE SubSeq(s, Len(s) - n + 1, Len(s))

RateUnits(e) == e.success_rate.num * (RateDen \div e.success_rate.den)

RECURSIVE SumRateUnits(_)
SumRateUnits(s) == IF s = <<>> THEN 0 ELSE RateUnits(Head(s)) + SumRateUnits(Tail(s))

RECURSIVE SumArt(_)
SumArt(s) == IF s = <<>> THEN 0 ELSE Head(s).avg_response_time + SumArt(Tail(s))

\* avg_success_rate > 0.8 and avg_response_time < 5.0 over `recent`
TooEasy(recent) ==
    /\ 10 * SumRateUnits(recent) > 8 * RateDen * Len(recent)
    /\ SumArt(recent) < 5 * ArtScale * Len(recent)

\* avg_success_rate < 0.3 or avg_response_time > 12.0 over `recent`
TooHard(recent) ==
    \/ 10 * SumRateUnits(recent) < 3 * RateDen * Len(recent)
    \/ SumArt(recent) > 12 * ArtScale * Len(recent)

\* get_current_difficulty adjusting on any history that is not empty.
GetCurrentDifficulty_AnyHistory(base, history) ==
    IF Len(history) < 1 THEN base
    ELSE LET recent == LastN(history, 10)
         IN  IF TooEasy(recent) THEN Max(IntDivFactor(base), max_difficulty)
             ELSE IF TooHard(recent) THEN Min(IntMulFactor(base), min_difficulty)
             ELSE base

\* get_current_difficulty without the max(..., max_difficulty) and
\* min(..., min_difficulty) of lines 84 and 87.
GetCurrentDifficulty_Unclamped(base, history) ==
    IF Len(history) < 5 THEN base
    ELSE LET recent == LastN(history, 10)
         IN  IF TooEasy(recent) THEN IntDivFactor(base)
             ELSE IF TooHard(recent) THEN IntMulFactor(base)
             ELSE base

\* The value get_current_difficulty returns and stores in self.base_difficulty.
GetCurrentDifficulty(base, history) ==
    IF Len(history) < 5 THEN base
    ELSE LET recent == LastN(history, 10)
         IN  IF TooEasy(recent) THEN Max(IntDivFactor(base), max_difficulty)
             ELSE IF TooHard(recent) THEN Min(IntMulFactor(base), min_difficulty)
             ELSE base

----------------------------------------------------------------------------
(* ChallengeGenerator *)

\* select_challenge_type: the weights in tenths, after the shift made from the
\* last round's success rate.
TypeWeight(t, history) ==
    LET w0 == IF t = "standard" THEN 4 ELSE 2
        last == history[Len(history)].success_rate
        shift == IF Len(history) = 0 THEN 0
                 ELSE IF 10 * last.num > 8 * last.den THEN 2
                 ELSE IF 10 * last.num < 3 * last.den THEN -2
                 ELSE 0
    IN  IF t = "high_difficulty" THEN w0 + shift
        ELSE IF t = "standard" THEN w0 - shift
        ELSE w0

\* random.choices never returns an element of weight 0.
SelectableTypes(history) == {t \in challenge_types : TypeWeight(t, history) > 0}

\* generate_target_from_difficulty: 4 little-endian bytes of the difficulty,
\* then 28 bytes 0xff.
TargetFromDifficulty(difficulty) == [hi |-> HiOnes, lo |-> difficulty]

\* The variant's change of the difficulty (create_challenge, lines 152-157).
VariantDifficulty(challenge_type, difficulty) ==
    IF challenge_type = "high_difficulty" THEN Max(difficulty \div 4, max_difficulty)
    ELSE IF challenge_type = "time_pressure" THEN Min(difficulty * 2, min_difficulty)
    ELSE IF challenge_type = "efficiency_test" THEN (difficulty * 3) \div 2
    ELSE difficulty

\* create_challenge with the variant and the header randomness drawn:
\* the header's bits come from a first call of get_current_difficulty, the
\* target's difficulty from a second one.
CreateChallenge(base, history, challenge_type, rnd) ==
    LET bits == GetCurrentDifficulty(base, history)
        difficulty == GetCurrentDifficulty(bits, history)
        final == VariantDifficulty(challenge_type, difficulty)
    IN  [challenge_type |-> challenge_type,
         header |-> [rnd |-> rnd, bits |-> bits],
         target |-> TargetFromDifficulty(final),
         base_after |-> difficulty]

\* A timeout that ignores the variant.
RoundTimeout_Flat(challenge_type) == 12

\* The timeout of a round (forward, lines 296-300), in seconds.
RoundTimeout(challenge_type) ==
    IF challenge_type = "time_pressure" THEN 6
    ELSE IF challenge_type = "high_difficulty" THEN 20
    ELSE 12

----------------------------------------------------------------------------
(* Hashing.  scrypt and SHA-256 are modelled by two fixed mixing functions *)
(* of the header and the nonce.                                            *)

LoWords == <<128, 32768, 8388608, 67108864>>

HashOfSeed(seed) == [hi |-> seed % (HiOnes + 1), lo |-> LoWords[(seed % 4) + 1]]

ScryptHash(header, n) ==
    HashOfSeed(7 * header.rnd + (header.bits % 5) + 3 * n)

Sha256Hash(header, n) ==
    HashOfSeed(5 * header.rnd + (header.bits % 3) + 7 * n + 1)

\* try: import scrypt ... except ImportError: hashlib.sha256
HashFullHeader(header, n, scrypt) ==
    IF scrypt THEN ScryptHash(header, n) ELSE Sha256Hash(header, n)

\* int.from_bytes(a, 'little') <= int.from_bytes(b, 'little')
LeqLE(a, b) == a.hi < b.hi \/ (a.hi = b.hi /\ a.lo <= b.lo)

----------------------------------------------------------------------------
(* ResultVerifier: Validator.verify_mining_result *)

Response(success, has_nonce, n, has_latency, latency_ms) ==
    [present |-> TRUE, success |-> success, has_nonce |-> has_nonce, nonce |-> n,
     has_latency |-> has_latency, latency_ms |-> latency_ms]

\* A response that did not arrive (None in the list dendrite.query returns).
MissingResponse ==
    [present |-> FALSE, success |-> FALSE, has_nonce |-> FALSE, nonce |-> 0,
     has_latency |-> FALSE, latency_ms |-> 0]

BlankVerification ==
    [valid |-> FALSE, nonce_valid |-> FALSE, target_met |-> FALSE,
     latency_reasonable |-> FALSE, hash_correct |-> FALSE,
     efficiency_score |-> 0, error |-> "None"]

\* min(1000.0 / latency_ms, 10.0) in micro-units
EfficiencyScore(r) ==
    IF r.has_latency /\ r.latency_ms > 0
    THEN Min(1000000000 \div r.latency_ms, 10000000)
    ELSE 0

NoSolutionClaimed == "No solution claimed"

\* A test that takes nonce 0 for an absent nonce.
NoSolution_Falsy(r) == ~r.success \/ ~r.has_nonce \/ r.nonce = 0

\* not response.success or response.nonce is None
NoSolution(r) == ~r.success \/ ~r.has_nonce

\* A verdict that also requires the latency band.
OverallValid_LatencyGated(nonce_valid, target_met, hash_correct, latency_reasonable) ==
    nonce_valid /\ target_met /\ hash_correct /\ latency_reasonable

\* Lines 219-223.
OverallValid(nonce_valid, target_met, hash_correct, latency_reasonable) ==
    nonce_valid /\ target_met /\ hash_correct

\* A packing that wraps the nonce to 32 bits instead of raising.
PackNonce_Wrapping(n) == [ok |-> TRUE, n |-> n % max_nonce]

\* struct.pack('<I', response.nonce): raises struct.error outside [0, 2^32).
PackNonce(n) ==
    IF 0 <= n /\ n < max_nonce THEN [ok |-> TRUE, n |-> n] ELSE [ok |-> FALSE, n |-> 0]

VerifyMiningResult(challenge, r, scrypt) ==
    IF NoSolution(r)
    THEN [BlankVerification EXCEPT !.error = NoSolutionClaimed]
    ELSE IF ~PackNonce(r.nonce).ok
    THEN \* the except clause of line 225 records the error
         [BlankVerification EXCEPT !.error = "struct.error"]
    ELSE LET hash_result == HashFullHeader(challenge.header, PackNonce(r.nonce).n, scrypt)
             target_met == LeqLE(hash_result, challenge.target)
             hash_correct == TRUE
             nonce_valid == 0 <= r.nonce /\ r.nonce < max_nonce
             latency_reasonable ==
                 r.has_latency /\ 100 <= r.latency_ms /\ r.latency_ms <= 15000
         IN  [valid |-> OverallValid(nonce_valid, target_met, hash_correct,
                                     latency_reasonable),
              nonce_valid |-> nonce_valid,
              target_met |-> target_met,
              latency_reasonable |-> latency_reasonable,
              hash_correct |-> hash_correct,
              efficiency_score |-> EfficiencyScore(r),
              error |-> "None"]

----------------------------------------------------------------------------
(* ScoringEngine: Validator.calculate_advanced_score *)

SpeedBonus(r) ==
    IF r.has_latency /\ r.latency_ms # 0 /\ r.latency_ms < 5000
    THEN Max(0, (5000 - r.latency_ms) * 100)
    ELSE 0

EfficiencyBonus(ver) ==
    IF ver.efficiency_score > 0 THEN Min(ver.efficiency_score \div 5, 300000) ELSE 0

TypeBonus(challenge_type, ver) ==
    IF challenge_type = "high_difficulty" THEN 500000
    ELSE IF challenge_type = "efficiency_test" THEN ver.efficiency_score \div 10
    ELSE 0

HistoricalBonus(mp, uid) ==
    IF uid \in DOMAIN mp
          /\ 10 * mp[uid].success_rate.num > 8 * mp[uid].success_rate.den
    THEN 200000
    ELSE 0

NewPerformance ==
    [total_challenges |-> 0, successful_challenges |-> 0,
     success_rate |-> [num |-> 0, den |-> 1], avg_latency |-> 0, total_score |-> 0]

\* An update that replaces the average latency by the new latency.
UpdatePerformance_NoBlend(mp, uid, ver, r, final_score) ==
    LET old == IF uid \in DOMAIN mp THEN mp[uid] ELSE NewPerformance
        total == old.total_challenges + 1
        succ == old.successful_challenges + (IF ver.valid THEN 1 ELSE 0)
        new == [total_challenges |-> total,
                successful_challenges |-> succ,
                success_rate |-> [num |-> succ, den |-> total],
                avg_latency |->
                    IF r.has_latency /\ r.latency_ms # 0
                    THEN 1000 * r.latency_ms
                    ELSE old.avg_latency,
                total_score |-> old.total_score + final_score]
    IN  [u \in (DOMAIN mp) \cup {uid} |-> IF u = uid THEN new ELSE mp[u]]

\* Lines 266-283: the update of the worker's record.
UpdatePerformance(mp, uid, ver, r, final_score) ==
    LET old == IF uid \in DOMAIN mp THEN mp[uid] ELSE NewPerformance
        total == old.total_challenges + 1
        succ == old.successful_challenges + (IF ver.valid THEN 1 ELSE 0)
        new == [total_challenges |-> total,
                successful_challenges |-> succ,
                success_rate |-> [num |-> succ, den |-> total],
                avg_latency |->
                    IF r.has_latency /\ r.latency_ms # 0
                    THEN (old.avg_latency + 1000 * r.latency_ms) \div 2
                    ELSE old.avg_latency,
                total_score |-> old.total_score + final_score]
    IN  [u \in (DOMAIN mp) \cup {uid} |-> IF u = uid THEN new ELSE mp[u]]

\* calculate_advanced_score: the score returned and the records it leaves.
CalculateAdvancedScore(mp, challenge_type, uid, ver, r) ==
    IF ~ver.valid
    THEN [score |-> 0, mp |-> mp]            \* line 235: return 0.0
    ELSE LET final_score == 1000000 + SpeedBonus(r) + EfficiencyBonus(ver)
                            + TypeBonus(challenge_type, ver) + HistoricalBonus(mp, uid)
         IN  [score |-> final_score,
              mp |-> UpdatePerformance(mp, uid, ver, r, final_score)]

----------------------------------------------------------------------------
(* The validator round: Validator.forward *)

\* What a worker does in a round, as the environment chooses it.
Latencies == {2, 3000}

ResponseKinds ==
    {[k |-> "missing", n |-> 0, l |-> 0], [k |-> "nosol", n |-> 0, l |-> 8000]}
    \cup {[k |-> "claim", n |-> n, l |-> l] : n \in ClaimNonces, l \in Latencies}
    \cup {[k |-> "honest", n |-> 0, l |-> l] : l \in Latencies}

\* Further answers a worker can give: success claimed without latency, the
\* success flag without a nonce, a nonce without the flag, and nonces outside
\* the nonce space.
ProbeKinds ==
    ResponseKinds
    \cup {[k |-> "claim_nolat", n |-> 0, l |-> 0],
          [k |-> "flag_only", n |-> 0, l |-> 3000],
          [k |-> "nonce_only", n |-> 0, l |-> 3000],
          [k |-> "claim", n |-> -1, l |-> 3000],
          [k |-> "claim", n |-> max_nonce, l |-> 3000],
          [k |-> "honest", n |-> 0, l |-> 20000]}

\* The nonces that solve a challenge under a hash implementation.
Solutions(header, target, scrypt) ==
    {n \in 0 .. (max_nonce - 1) : LeqLE(HashFullHeader(header, n, scrypt), target)}

SetMin(S) == CHOOSE x \in S : \A y \in S : x <= y

\* The response of a worker of that kind to a challenge.
ResponseOf(kind, challenge, scrypt) ==
    IF kind.k = "missing" THEN MissingResponse
    ELSE IF kind.k = "nosol" THEN Response(FALSE, FALSE, 0, TRUE, kind.l)
    ELSE IF kind.k = "claim" THEN Response(TRUE, TRUE, kind.n, TRUE, kind.l)
    ELSE IF kind.k = "claim_nolat" THEN Response(TRUE, TRUE, kind.n, FALSE, 0)
    ELSE IF kind.k = "flag_only" THEN Response(TRUE, FALSE, 0, TRUE, kind.l)
    ELSE IF kind.k = "nonce_only" THEN Response(FALSE, TRUE, kind.n, TRUE, kind.l)
    ELSE LET sols == Solutions(challenge.header, challenge.target, scrypt)
         IN  IF sols = {} THEN Response(FALSE, FALSE, 0, TRUE, 8000)
             ELSE Response(TRUE, TRUE, SetMin(sols), TRUE, kind.l)

\* One pass of the loop of lines 317-341, for worker uid; acc holds the
\* records, the scores and the counters so far.
EvaluateOne(uid, acc, challenge_type, challenge, responses, scrypt) ==
    LET r == responses[uid]
        ver == VerifyMiningResult(challenge, r, scrypt)
        sc == CalculateAdvancedScore(acc.mp, challenge_type, uid, ver, r)
    IN  IF ~r.present
        THEN [acc EXCEPT !.scores = Append(@, 0),
                         !.verifications = Append(@, BlankVerification),
                         !.historical = Append(@, FALSE)]
        ELSE [mp |-> sc.mp,
              scores |-> Append(acc.scores, sc.score),
              verifications |-> Append(acc.verifications, ver),
              historical |-> Append(acc.historical,
                                    ver.valid /\ HistoricalBonus(acc.mp, uid) > 0),
              valid_responses |-> acc.valid_responses + (IF ver.valid THEN 1 ELSE 0),
              total_response_time |-> acc.total_response_time
                  + (IF ver.valid /\ r.has_latency THEN r.latency_ms ELSE 0)]

\* The loop of lines 317-341 from worker uid on.
RECURSIVE EvaluateResponses(_, _, _, _, _, _)
EvaluateResponses(uid, acc, challenge_type, challenge, responses, scrypt) ==
    IF uid >= NumWorkers THEN acc
    ELSE EvaluateResponses(uid + 1,
             EvaluateOne(uid, acc, challenge_type, challenge, responses, scrypt),
             challenge_type, challenge, responses, scrypt)

\* Statistics whose success rate is taken over the workers that answered.
ChallengeStats_AnsweredOnly(start_time, challenge_type, base, timeout, acc) ==
    [timestamp |-> start_time,
     challenge_type |-> challenge_type,
     difficulty |-> base,
     success_rate |->
         [num |-> acc.valid_responses,
          den |-> Cardinality({i \in 1 .. Len(acc.verifications) :
                                  acc.verifications[i] # BlankVerification})],
     avg_response_time |->
         IF acc.valid_responses > 0
         THEN (acc.total_response_time * ArtScale) \div acc.valid_responses
         ELSE timeout * 1000 * ArtScale,
     timeout |-> timeout]

\* challenge_stats of lines 344-356.
ChallengeStats(start_time, challenge_type, base, timeout, acc) ==
    [timestamp |-> start_time,
     challenge_type |-> challenge_type,
     difficulty |-> base,
     success_rate |-> [num |-> acc.valid_responses, den |-> NumWorkers],
     avg_response_time |->
         IF acc.valid_responses > 0
         THEN (acc.total_response_time * ArtScale) \div acc.valid_responses
         ELSE timeout * 1000 * ArtScale,
     timeout |-> timeout]

\* A trim that keeps the oldest entries.
AppendHistory_KeepsOldest(history, stats) ==
    SubSeq(Append(history, stats), 1, Min(Len(history) + 1, history_cap))

\* What each worker was scored for so far: responses verified, and valid ones.
NewTally(tally, responses, verifications) ==
    [u \in Workers |->
        [scored |-> tally[u].scored + (IF responses[u].present THEN 1 ELSE 0),
         valid |-> tally[u].valid + (IF verifications[u + 1].valid THEN 1 ELSE 0)]]

\* Lines 358-362.
AppendHistory(history, stats) == LastN(Append(history, stats), history_cap)

\* The environment.  In the long runs every worker answers the same way in
\* every round (all miss, or all solve honestly with one latency), the variant
\* drawn is the standard one and the header seed is 0; a behaviour ends with one
\* round in which the variant and the seed are free and up to MaxDeviants
\* workers answer in any way.
UniformKinds ==
    {[k |-> "missing", n |-> 0, l |-> 0]} \cup {[k |-> "honest", n |-> 0, l |-> l] : l \in Latencies}

NoRegime == [k |-> "none", n |-> 0, l |-> 0]
EndRegime == [k |-> "off", n |-> 0, l |-> 0]

RoundKinds(common, deviants, answers) ==
    [u \in Workers |-> IF u \in deviants THEN answers[u] ELSE common]

IsUniform(challenge_type, rnd, kinds) ==
    /\ challenge_type = "standard"
    /\ rnd = 0
    /\ \A u \in Workers : kinds[u] = kinds[0]

NextRegime(challenge_type, rnd, kinds) ==
    IF IsUniform(challenge_type, rnd, kinds) THEN kinds[0] ELSE EndRegime

\* One round.  start_time = time.time() is the number of the round: the
\* clock counts the rounds started.
Forward(challenge_type, rnd, kinds) ==
    /\ challenge_type \in SelectableTypes(challenge_history)
    /\ \E challenge \in {CreateChallenge(base_difficulty, challenge_history, challenge_type, rnd)} :
       \E responses \in {[u \in Workers |-> ResponseOf(kinds[u], challenge, v_scrypt)]} :
       \E acc \in {EvaluateResponses(0,
                      [mp |-> miner_performance, scores |-> <<>>, verifications |-> <<>>,
                       historical |-> <<>>,
                       valid_responses |-> 0, total_response_time |-> 0],
                      challenge_type, challenge, responses, v_scrypt)} :
           /\ current_challenge_type' = challenge_type
           /\ base_difficulty' = challenge.base_after
           /\ miner_performance' = acc.mp
           /\ challenge_history' =
                  AppendHistory(challenge_history,
                      ChallengeStats(vlog.round + 1,
                                     challenge_type, challenge.base_after,
                                     RoundTimeout(challenge_type), acc))
           /\ vlog' = [op |-> "forward",
                       round |-> vlog.round + 1,
                       challenge |-> challenge,
                       base_before |-> base_difficulty,
                       history_before |-> Len(challenge_history),
                       timeout |-> RoundTimeout(challenge_type),
                       responses |-> responses,
                       verifications |-> acc.verifications,
                       scores |-> acc.scores,
                       historical |-> acc.historical,
                       tally_before |-> vlog.tally,
                       tally |-> NewTally(vlog.tally, responses, acc.verifications),
                       mp_before |-> miner_performance]
    /\ regime' = NextRegime(challenge_type, rnd, kinds)
    /\ UNCHANGED <<v_scrypt, fed>>
    /\ UNCHANGED <<mvars, cvars, avars, rvars>>

NoChallenge ==
    [challenge_type |-> "standard", header |-> [rnd |-> 0, bits |-> 0],
     target |-> [hi |-> 0, lo |-> 0], base_after |-> 0]

VInit ==
    /\ base_difficulty = initial_base_difficulty
    /\ challenge_history = <<>>
    /\ miner_performance = <<>>
    /\ current_challenge_type = "standard"
    /\ v_scrypt \in BOOLEAN
    /\ regime = NoRegime
    /\ fed = [turns |-> 0, dir |-> 0]
    /\ vlog = [op |-> "init", round |-> 0, challenge |-> NoChallenge, base_before |-> 0,
               history_before |-> 0, timeout |-> 0,
               responses |-> [u \in Workers |-> MissingResponse],
               verifications |-> <<>>, scores |-> <<>>, historical |-> <<>>,
               tally_before |-> [u \in Workers |-> [scored |-> 0, valid |-> 0]],
               tally |-> [u \in Workers |-> [scored |-> 0, valid |-> 0]],
               mp_before |-> <<>>]

----------------------------------------------------------------------------
(* The round step by step.  forward is a coroutine: it runs without being  *)
(* interrupted up to "await self.dendrite.query" (line 305) and, once the   *)
(* responses are there, from the await to its return.  While a call awaits, *)
(* the event loop runs other coroutines, among them further calls of        *)
(* forward on the same validator.                                           *)

Forwards == 1 .. MaxForwards

\* What the workers answer in the rounds followed step by step: all solve;
\* one solves quickly, one is missing, one has no solution; one is missing,
\* one answers a solution without latency, one solves.
StepAnswers ==
    {[u \in Workers |-> [k |-> "honest", n |-> 0, l |-> 3000]],
     [u \in Workers |-> IF u = 0 THEN [k |-> "honest", n |-> 0, l |-> 2]
                        ELSE IF u = 1 THEN [k |-> "missing", n |-> 0, l |-> 0]
                        ELSE [k |-> "nosol", n |-> 0, l |-> 8000]],
     [u \in Workers |-> IF u = 0 THEN [k |-> "missing", n |-> 0, l |-> 0]
                        ELSE IF u = 1 THEN [k |-> "claim_nolat", n |-> 0, l |-> 0]
                        ELSE [k |-> "honest", n |-> 0, l |-> 3000]]}

\* The local variables of forward at line 313-315, before the loop.
NoTotals ==
    [scores |-> <<>>, verifications |-> <<>>, historical |-> <<>>,
     valid_responses |-> 0, total_response_time |-> 0]

\* A call of forward that has not started: pc is its position, uid the loop
\* variable, queries the calls of dendrite.query it made.
NoForward ==
    [pc |-> "idle", start_time |-> 0, challenge |-> NoChallenge, timeout |-> 0,
     responses |-> [u \in Workers |-> MissingResponse], uid |-> 0,
     totals |-> NoTotals, queries |-> 0]

NoStep ==
    [op |-> "none", who |-> 0, started |-> 0, call |-> NoForward,
     mp_before |-> <<>>, history_before |-> <<>>, base_before |-> 0,
     type_before |-> "standard"]

\* What a step leaves in rlog: the call after the step and the shared state
\* before it.
StepLog(op, i, call) ==
    [op |-> op, who |-> i,
     started |-> rlog.started + (IF op = "start" THEN 1 ELSE 0),
     call |-> call,
     mp_before |-> miner_performance, history_before |-> challenge_history,
     base_before |-> base_difficulty, type_before |-> current_challenge_type]

\* The event loop runs one coroutine at a time: no call is between its await
\* and its return.
LoopFree == \A j \in Forwards : fwd[j].pc # "evaluating"

\* Lines 290-305: forward up to the await.
StartForward(i, challenge_type, rnd) ==
    /\ fwd[i].pc = "idle"
    /\ LoopFree
    /\ rlog.started < MaxStepRounds
    /\ challenge_type \in SelectableTypes(challenge_history)
    /\ \E challenge \in {CreateChallenge(base_difficulty, challenge_history,
                                         challenge_type, rnd)} :
       \E call \in {[NoForward EXCEPT !.pc = "awaiting",
                                      !.start_time = rlog.started + 1,
                                      !.challenge = challenge,
                                      !.timeout = RoundTimeout(challenge_type)]} :
           /\ current_challenge_type' = challenge_type
           /\ base_difficulty' = challenge.base_after
           /\ fwd' = [fwd EXCEPT ![i] = call]
           /\ rlog' = StepLog("start", i, call)
    /\ UNCHANGED <<challenge_history, miner_performance, v_scrypt, regime, fed, vlog>>
    /\ UNCHANGED <<mvars, cvars, avars>>

\* Lines 305-315: dendrite.query returns the list of responses.
QueryReturns(i, kinds) ==
    /\ fwd[i].pc = "awaiting"
    /\ LoopFree
    /\ \E call \in {[fwd[i] EXCEPT
                        !.pc = "evaluating",
                        !.responses = [u \in Workers |->
                                          ResponseOf(kinds[u], fwd[i].challenge, v_scrypt)],
                        !.queries = @ + 1]} :
           /\ fwd' = [fwd EXCEPT ![i] = call]
           /\ rlog' = StepLog("responses", i, call)
    /\ UNCHANGED <<vvars, mvars, cvars, avars>>

\* Lines 317-341: one pass of the loop.  calculate_advanced_score reads
\* self.current_challenge_type and self.miner_performance as they are now.
EvaluateResponse(i) ==
    /\ fwd[i].pc = "evaluating"
    /\ fwd[i].uid < NumWorkers
    /\ \E acc \in {EvaluateOne(fwd[i].uid, [mp |-> miner_performance] @@ fwd[i].totals,
                                current_challenge_type, fwd[i].challenge,
                                fwd[i].responses, v_scrypt)} :
       \E call \in {[fwd[i] EXCEPT !.uid = @ + 1,
                                   !.totals = [k \in DOMAIN NoTotals |-> acc[k]]]} :
           /\ miner_performance' = acc.mp
           /\ fwd' = [fwd EXCEPT ![i] = call]
           /\ rlog' = StepLog("evaluate", i, call)
    /\ UNCHANGED <<base_difficulty, challenge_history, current_challenge_type,
                   v_scrypt, regime, fed, vlog>>
    /\ UNCHANGED <<mvars, cvars, avars>>

\* Lines 343-368: the statistics, the history and the return of the scores
\* (rlog keeps the call as it returns).
FinishForward(i) ==
    /\ fwd[i].pc = "evaluating"
    /\ fwd[i].uid = NumWorkers
    /\ challenge_history' =
           AppendHistory(challenge_history,
               ChallengeStats(fwd[i].start_time, current_challenge_type, base_difficulty,
                              fwd[i].timeout, fwd[i].totals))
    /\ fwd' = [fwd EXCEPT ![i] = NoForward]
    /\ rlog' = StepLog("finish", i, [fwd[i] EXCEPT !.pc = "returned"])
    /\ UNCHANGED <<base_difficulty, miner_performance, current_challenge_type,
                   v_scrypt, regime, fed, vlog>>
    /\ UNCHANGED <<mvars, cvars, avars>>

RInit ==
    /\ fwd = [i \in Forwards |-> NoForward]
    /\ rlog = NoStep

StepNext ==
    \/ \E i \in Forwards, challenge_type \in challenge_types :
           StartForward(i, challenge_type, 0)
    \/ \E i \in Forwards, kinds \in StepAnswers : QueryReturns(i, kinds)
    \/ \E i \in Forwards : EvaluateResponse(i)
    \/ \E i \in Forwards : FinishForward(i)

----------------------------------------------------------------------------
(* DeviceClient: CGMinerAPI._query and _query_with_retry.  Bytes are       *)
(* sequences of characters; "q" stands for the double quote.  The JSON     *)
(* the device speaks is reduced to objects holding one string,             *)
(* {"..."}, and lists of them, [{"..."},{"..."}].                          *)

connection_retries == 3

retry_delay == 1

\* Contents of the string inside an object the device sends.
StringContents == {<<>>, <<"a">>, <<"}", "{">>, <<"a", "}">>}

JsonObject(content) == [kind |-> "object", items |-> <<content>>]

JsonList(contents) == [kind |-> "list", items |-> contents]

\* The bytes of one object as the device writes it.
Dumps(content) == <<"{", "q">> \o content \o <<"q", "}">>

RECURSIVE Concat(_)
Concat(contents) ==
    IF contents = <<>> THEN <<>>
    ELSE Dumps(Head(contents)) \o Concat(Tail(contents))

\* Sequences of at most MaxObjects objects sent in one read.
RECURSIVE SentUpTo(_)
SentUpTo(k) ==
    IF k = 0 THEN {<<>>}
    ELSE LET shorter == SentUpTo(k - 1)
         IN  shorter \cup {Append(c, x) : c \in {d \in shorter : Len(d) = k - 1},
                                          x \in StringContents}

\* What one attempt meets: the connection times out or fails, or recv
\* delivers the objects sent (none: an empty read) or bytes that are not JSON.
Reads ==
    {[kind |-> "data", sent |-> c, data |-> Concat(c)] : c \in SentUpTo(MaxObjects)}
    \cup {[kind |-> "data", sent |-> <<>>, data |-> <<"a">>],
          [kind |-> "timeout", sent |-> <<>>, data |-> <<>>],
          [kind |-> "refused", sent |-> <<>>, data |-> <<>>]}

\* b"}{" in data
ContainsSeam(data) ==
    \E i \in 1 .. (Len(data) - 1) : data[i] = "}" /\ data[i + 1] = "{"

\* data.replace(b"}{", b"},{")
RECURSIVE ReplaceSeams(_)
ReplaceSeams(data) ==
    IF Len(data) < 2 THEN data
    ELSE IF data[1] = "}" /\ data[2] = "{"
         THEN <<"}", ",">> \o <<"{">> \o ReplaceSeams(SubSeq(data, 3, Len(data)))
         ELSE <<data[1]>> \o ReplaceSeams(Tail(data))

\* The position of the first "q" at or after i, or 0.
RECURSIVE NextQuote(_, _)
NextQuote(data, i) ==
    IF i > Len(data) THEN 0
    ELSE IF data[i] = "q" THEN i
    ELSE NextQuote(data, i + 1)

\* An object starting at position i: its string and the position after it.
ObjectAt(data, i) ==
    IF i + 1 <= Len(data) /\ data[i] = "{" /\ data[i + 1] = "q"
    THEN LET j == NextQuote(data, i + 2)
         IN  IF j > 0 /\ j + 1 <= Len(data) /\ data[j + 1] = "}"
             THEN [ok |-> TRUE, content |-> SubSeq(data, i + 2, j - 1), next |-> j + 2]
             ELSE [ok |-> FALSE, content |-> <<>>, next |-> 0]
    ELSE [ok |-> FALSE, content |-> <<>>, next |-> 0]

\* The objects of a list from position i on, up to the closing bracket.
RECURSIVE ItemsFrom(_, _, _)
ItemsFrom(data, i, acc) ==
    LET o == ObjectAt(data, i)
    IN  IF ~o.ok THEN [ok |-> FALSE, items |-> <<>>]
        ELSE IF o.next = Len(data) /\ data[o.next] = "]"
             THEN [ok |-> TRUE, items |-> Append(acc, o.content)]
        ELSE IF o.next < Len(data) /\ data[o.next] = ","
             THEN ItemsFrom(data, o.next + 1, Append(acc, o.content))
        ELSE [ok |-> FALSE, items |-> <<>>]

NoValue == [kind |-> "none", items |-> <<>>]

\* json.loads: a value, or JSONDecodeError.
JsonLoads(data) ==
    IF data = <<>> THEN [ok |-> FALSE, value |-> NoValue]
    ELSE IF data[1] = "{"
         THEN LET o == ObjectAt(data, 1)
              IN  IF o.ok /\ o.next = Len(data) + 1
                  THEN [ok |-> TRUE, value |-> JsonObject(o.content)]
                  ELSE [ok |-> FALSE, value |-> NoValue]
    ELSE IF data[1] = "["
         THEN IF data = <<"[", "]">> THEN [ok |-> TRUE, value |-> JsonList(<<>>)]
              ELSE LET l == ItemsFrom(data, 2, <<>>)
                   IN  IF l.ok THEN [ok |-> TRUE, value |-> JsonList(l.items)]
                       ELSE [ok |-> FALSE, value |-> NoValue]
    ELSE [ok |-> FALSE, value |-> NoValue]

Returned(value) == [ok |-> TRUE, value |-> value, error |-> "none"]

Raised(error) == [ok |-> FALSE, value |-> NoValue, error |-> error]

\* _query: what it returns or raises for what the socket delivers.
Query(read) ==
    IF read.kind = "timeout" THEN Raised("TimeoutError")
    ELSE IF read.kind = "refused" THEN Raised("ConnectionError")
    ELSE IF read.data = <<>> THEN Raised("ValueError: Empty response")
    ELSE IF ContainsSeam(read.data)
         THEN LET l == JsonLoads(<<"[">> \o ReplaceSeams(read.data) \o <<"]">>)
              IN  IF l.ok THEN Returned(l.value) ELSE Raised("JSONDecodeError")
    ELSE LET v == JsonLoads(read.data)
         IN  IF v.ok THEN Returned(v.value) ELSE Raised("ValueError: Invalid JSON")

NoException == [error |-> "none", n |-> 0]

\* Sleeping after every failed attempt, the last one included.
SleepsAfter_Always(a) == TRUE

\* if attempt < self.connection_retries - 1: time.sleep(self.retry_delay)
SleepsAfter(a) == a < connection_retries - 1

NoRead == [kind |-> "none", sent |-> <<>>, data |-> <<>>]

NewCallLog ==
    [outcome |-> "none", attempts |-> 0, failed |-> 0, waited |-> 0,
     read |-> NoRead, last |-> Raised("none"), result |-> NoValue, raised |-> NoException]

\* _query_with_retry is called (by version, summary, ...).
CallQueryWithRetry ==
    /\ cpc = "idle"
    /\ calls < MaxCalls
    /\ calls' = calls + 1
    /\ cpc' = "trying"
    /\ attempt' = 0
    /\ last_exception' = NoException
    /\ clog' = NewCallLog
    /\ UNCHANGED <<vvars, mvars, avars, rvars>>

\* One pass of the loop: self._query(payload) returns, or raises and the
\* exception is kept; after the last pass last_exception is raised.
TryQuery(read) ==
    /\ cpc = "trying"
    /\ attempt < connection_retries
    /\ calls' = calls
    /\ \E r \in {Query(read)} :
       LET log == [clog EXCEPT !.attempts = @ + 1, !.read = read, !.last = r]
       IN  IF r.ok
           THEN /\ cpc' = "idle"
                /\ clog' = [log EXCEPT !.outcome = "returned", !.result = r.value]
                /\ UNCHANGED <<attempt, last_exception>>
           ELSE LET e == [error |-> r.error, n |-> attempt + 1]
                IN  /\ last_exception' = e
                    /\ IF SleepsAfter(attempt)
                       THEN /\ cpc' = "sleeping"
                            /\ clog' = [log EXCEPT !.failed = @ + 1]
                            /\ attempt' = attempt
                       ELSE IF attempt + 1 < connection_retries
                       THEN /\ cpc' = "trying"
                            /\ clog' = [log EXCEPT !.failed = @ + 1]
                            /\ attempt' = attempt + 1
                       ELSE /\ cpc' = "idle"
                            /\ clog' = [log EXCEPT !.failed = @ + 1, !.outcome = "raised",
                                                   !.raised = e]
                            /\ attempt' = attempt + 1
    /\ UNCHANGED <<vvars, mvars, avars, rvars>>

\* time.sleep(self.retry_delay) returns and the loop goes on.
Wake ==
    /\ cpc = "sleeping"
    /\ attempt' = attempt + 1
    /\ IF attempt + 1 < connection_retries
       THEN /\ cpc' = "trying"
            /\ clog' = [clog EXCEPT !.waited = @ + retry_delay]
       ELSE /\ cpc' = "idle"
            /\ clog' = [clog EXCEPT !.waited = @ + retry_delay, !.outcome = "raised",
                                    !.raised = last_exception]
    /\ UNCHANGED <<last_exception, calls>>
    /\ UNCHANGED <<vvars, mvars, avars, rvars>>

\* The state after CGMinerAPI.__init__.
CInit ==
    /\ cpc = "idle"
    /\ attempt = 0
    /\ last_exception = NoException
    /\ calls = 0
    /\ clog = NewCallLog

ClientNext ==
    \/ CallQueryWithRetry
    \/ \E read \in Reads : TryQuery(read)
    \/ Wake

----------------------------------------------------------------------------
(* AccessControl: Miner.blacklist and Miner.priority.  Hotkeys are numbers; *)
(* priorities are counted in halves of a stake unit.                        *)

min_stake == 1000

validator_bonus_num == 3

validator_bonus_den == 2

Stakes == {0, 999, 1000, 1500}

\* Registries of n neurons: hotkeys, validator_permit and S have one entry
\* per neuron.
MetagraphsOf(n) ==
    {[hotkeys |-> [i \in 1 .. n |-> i], validator_permit |-> vp, S |-> st] :
        vp \in [1 .. n -> BOOLEAN], st \in [1 .. n -> Stakes]}

Metagraphs == UNION {MetagraphsOf(n) : n \in 0 .. MaxNeurons}

\* The registry of tests/test_zeus_miner.py:33-40.
FixtureMetagraph ==
    [hotkeys |-> <<1, 2, 3>>, validator_permit |-> <<FALSE, FALSE, TRUE>>,
     S |-> <<500, 750, 1500>>]

\* synapse.dendrite of a request: absent, without hotkey, or with a hotkey
\* (MaxNeurons + 1 is in no registry).
Requesters ==
    {[dendrite |-> FALSE, has_hotkey |-> FALSE, hotkey |-> 0],
     [dendrite |-> TRUE, has_hotkey |-> FALSE, hotkey |-> 0]}
    \cup {[dendrite |-> TRUE, has_hotkey |-> TRUE, hotkey |-> h] : h \in 1 .. (MaxNeurons + 1)}

MissingIdentity(requester) == ~requester.dendrite \/ ~requester.has_hotkey

Registered(mg, hotkey) == \E i \in 1 .. Len(mg.hotkeys) : mg.hotkeys[i] = hotkey

\* self.metagraph.hotkeys.index(hotkey)
IndexOf(mg, hotkey) ==
    CHOOSE i \in 1 .. Len(mg.hotkeys) :
        /\ mg.hotkeys[i] = hotkey
        /\ \A j \in 1 .. (i - 1) : mg.hotkeys[j] # hotkey

\* A stake check that rejects the threshold itself.
SufficientStake_Strict(stake) == stake > min_stake

\* not (self.metagraph.S[uid] < min_stake)
SufficientStake(stake) == ~(stake < min_stake)

\* Miner.blacklist: (blacklisted, reason).
BlacklistResult(mg, requester) ==
    IF MissingIdentity(requester)
    THEN [blacklisted |-> TRUE, reason |-> "Missing dendrite or hotkey"]
    ELSE IF ~Registered(mg, requester.hotkey)
    THEN [blacklisted |-> TRUE, reason |-> "Unrecognized hotkey"]
    ELSE LET uid == IndexOf(mg, requester.hotkey)
         IN  IF ~mg.validator_permit[uid]
             THEN [blacklisted |-> TRUE, reason |-> "Non-validator hotkey"]
             ELSE IF ~SufficientStake(mg.S[uid])
             THEN [blacklisted |-> TRUE, reason |-> "Insufficient stake"]
             ELSE [blacklisted |-> FALSE, reason |-> "Validator authorized"]

\* A priority that gives validators no bonus.
ScaledStake_NoBonus(stake, permitted) == validator_bonus_den * stake

\* stake *= 1.5 for a holder of a validator permit, in halves.
ScaledStake(stake, permitted) ==
    IF permitted THEN validator_bonus_num * stake ELSE validator_bonus_den * stake

\* Miner.priority, in halves; ValueError of index() and IndexError are
\* caught and give 0.0.
PriorityResult(mg, requester) ==
    IF MissingIdentity(requester) THEN [raised |-> FALSE, halves |-> 0]
    ELSE IF ~Registered(mg, requester.hotkey) THEN [raised |-> FALSE, halves |-> 0]
    ELSE LET caller_uid == IndexOf(mg, requester.hotkey)
         IN  IF caller_uid > Len(mg.S) THEN [raised |-> FALSE, halves |-> 0]
             ELSE [raised |-> FALSE,
                   halves |-> ScaledStake(mg.S[caller_uid],
                                          /\ caller_uid <= Len(mg.validator_permit)
                                          /\ mg.validator_permit[caller_uid])]

NoAccess ==
    [op |-> "none", requester |-> [dendrite |-> FALSE, has_hotkey |-> FALSE, hotkey |-> 0],
     blacklisted |-> FALSE, reason |-> "", raised |-> FALSE, halves |-> 0]

\* blacklist is called for a request.
Blacklist(requester) ==
    /\ alog.op = "none"
    /\ LET r == BlacklistResult(metagraph, requester)
       IN  alog' = [NoAccess EXCEPT !.op = "blacklist", !.requester = requester,
                                    !.blacklisted = r.blacklisted, !.reason = r.reason]
    /\ UNCHANGED <<metagraph, vvars, mvars, cvars, rvars>>

\* priority is called for a request.
Priority(requester) ==
    /\ alog.op = "none"
    /\ LET r == PriorityResult(metagraph, requester)
       IN  alog' = [NoAccess EXCEPT !.op = "priority", !.requester = requester,
                                    !.raised = r.raised, !.halves = r.halves]
    /\ UNCHANGED <<metagraph, vvars, mvars, cvars, rvars>>

AInit == alog = NoAccess

AccessNext ==
    \/ \E requester \in Requesters : Blacklist(requester)
    \/ \E requester \in Requesters : Priority(requester)

----------------------------------------------------------------------------
(* MiningEngine: the miner *)

forward_timeout == 8

LoOnes == 2 * 1073741823 + 1

\* A string handed over as hex: its length, what its characters are ("hex":
\* hexadecimal digits only; "spaced": pairs of hexadecimal digits with ASCII
\* whitespace between pairs; "other": some other character, or a pair split
\* by whitespace), and the bytes bytes.fromhex decodes it to.
HeaderHexes ==
    {[len |-> 152, chars |-> "hex", bytes |-> [rnd |-> r, bits |-> initial_base_difficulty]] :
        r \in HeaderSeeds}
    \cup {[len |-> 150, chars |-> "hex", bytes |-> [rnd |-> 0, bits |-> initial_base_difficulty]],
          [len |-> 0, chars |-> "hex", bytes |-> [rnd |-> 0, bits |-> 0]],
          [len |-> 152, chars |-> "other", bytes |-> [rnd |-> 0, bits |-> 0]],
          [len |-> 152, chars |-> "spaced", bytes |-> [rnd |-> 1, bits |-> 0]]}

Targets ==
    {[hi |-> HiOnes, lo |-> LoOnes],                   \* "ff" * 32
     [hi |-> 0, lo |-> 0],                             \* "00" * 32
     [hi |-> 1, lo |-> LoWords[2]],                    \* met by some hashes only
     TargetFromDifficulty(initial_base_difficulty)}

TargetHexes ==
    {[len |-> 64, chars |-> "hex", bytes |-> t] : t \in Targets}
    \cup {[len |-> 60, chars |-> "hex", bytes |-> [hi |-> HiOnes, lo |-> LoOnes]],
          [len |-> 64, chars |-> "other", bytes |-> [hi |-> 0, lo |-> 0]]}

\* verify_share_target: both branches on use_software_mining call scrypt_hash.
VerifyShareTarget(header, n, target, scrypt) ==
    LeqLE(HashFullHeader(header, n, scrypt), target)

\* Lines 176-183 of forward: the checks that raise ValueError.
ValidLengths(header_hex, target_hex) ==
    /\ header_hex.len # 0
    /\ target_hex.len # 0
    /\ header_hex.len = 152
    /\ target_hex.len = 64

\* bytes.fromhex of both strings succeeds (software_mine, lines 98-99); it
\* skips ASCII whitespace between pairs of digits.
FromHexOk(header_hex, target_hex) ==
    /\ header_hex.chars \in {"hex", "spaced"} /\ header_hex.len % 2 = 0
    /\ target_hex.chars \in {"hex", "spaced"} /\ target_hex.len % 2 = 0

\* A search that tries every other nonce.
NextNonce_Skipping(n) == n + 2

\* nonce += 1 (line 113)
NextNonce(n) == n + 1

\* A loop that never looks at the clock.
LoopContinues_NoClock(n, since_start, timeout) == n < max_nonce

\* while nonce < max_nonce and (time.time() - start_time) < timeout
LoopContinues(n, since_start, timeout) == n < max_nonce /\ since_start < timeout

NoResponse ==
    [success |-> FALSE, has_nonce |-> FALSE, nonce |-> 0, has_latency |-> FALSE, latency_ms |-> 0]

\* The except and finally clauses of forward (lines 202-208).
FailedResponse(seconds) ==
    [success |-> FALSE, has_nonce |-> FALSE, nonce |-> 0,
     has_latency |-> TRUE, latency_ms |-> 1000 * seconds]

\* A response that carries a nonce whether or not one was found.
MinedResponse_NonceKept(found, found_nonce, seconds) ==
    [success |-> found, has_nonce |-> TRUE, nonce |-> found_nonce,
     has_latency |-> TRUE, latency_ms |-> 1000 * seconds]

\* Lines 194-195 and 208 after the search returned (found_nonce, found).
MinedResponse(found, found_nonce, seconds) ==
    [success |-> found, has_nonce |-> found, nonce |-> IF found THEN found_nonce ELSE 0,
     has_latency |-> TRUE, latency_ms |-> 1000 * seconds]

\* log_performance: total_hashes is reset when a minute has passed since the
\* last log.
LoggedHashes(hashes, minute_passed) == IF minute_passed THEN 0 ELSE hashes

NoRequest ==
    [via |-> "none", header_hex |-> [len |-> 0, chars |-> "hex", bytes |-> [rnd |-> 0, bits |-> 0]],
     target_hex |-> [len |-> 0, chars |-> "hex", bytes |-> [hi |-> 0, lo |-> 0]],
     timeout |-> 0]

NewLog(hashes, shares, failed_before) ==
    [done |-> FALSE, raised |-> FALSE, attempts |-> 0, late_attempts |-> 0,
     device_contacts |-> 0, device_nonce |-> -1, mine_start |-> 0,
     since_yield |-> 0, yields |-> 0,
     found |-> FALSE, found_nonce |-> 0,
     hashes_before |-> hashes, shares_before |-> shares, failed_before |-> failed_before]

\* software_mine is entered: the hex strings are decoded, the clock is read.
\* A ValueError of bytes.fromhex reaches forward's except clause (in device
\* mode after cgminer_mine's except clause has called software_mine again,
\* which raises again); a direct caller sees it raised.
EnterSoftwareMine(log) ==
    IF FromHexOk(req.header_hex, req.target_hex)
    THEN /\ mpc' = "mining"
         /\ nonce' = 0
         /\ mlog' = [log EXCEPT !.mine_start = elapsed]
         /\ UNCHANGED resp
    ELSE /\ mpc' = "idle"
         /\ nonce' = 0
         /\ mlog' = [log EXCEPT !.done = TRUE, !.raised = (req.via = "direct")]
         /\ resp' = IF req.via = "forward" THEN FailedResponse(elapsed) ELSE resp

\* Miner.forward is called with a request; the synapse it fills in is new.
ReceiveForward(header_hex, target_hex) ==
    /\ mpc = "idle"
    /\ served < MaxRequests
    /\ served' = served + 1
    /\ req' = [via |-> "forward", header_hex |-> header_hex, target_hex |-> target_hex,
               timeout |-> forward_timeout]
    /\ elapsed' = 0
    /\ nonce' = 0
    /\ UNCHANGED <<use_software_mining, total_hashes, shares_found, m_scrypt, device_failed>>
    /\ UNCHANGED <<vvars, cvars, avars, rvars>>
    /\ LET log == NewLog(total_hashes, shares_found, device_failed)
       IN  IF ~ValidLengths(header_hex, target_hex)
           THEN /\ mpc' = "idle"
                /\ resp' = FailedResponse(0)
                /\ mlog' = [log EXCEPT !.done = TRUE]
           ELSE IF use_software_mining
           THEN IF FromHexOk(header_hex, target_hex)
                THEN /\ mpc' = "mining"
                     /\ mlog' = log
                     /\ resp' = NoResponse
                ELSE /\ mpc' = "idle"
                     /\ resp' = FailedResponse(0)
                     /\ mlog' = [log EXCEPT !.done = TRUE]
           ELSE /\ mpc' = "querying"          \* cgminer_mine: self.cg.summary()
                /\ mlog' = log
                /\ resp' = NoResponse

\* What self.cg.summary() does in cgminer_mine: it returns a reply (a dict
\* with or without STATUS, or a list of objects), which may name a nonce the
\* device says it found, or it raises after its retries.
DeviceReplies ==
    {[kind |-> "status", nonce |-> -1], [kind |-> "status", nonce |-> 1],
     [kind |-> "list", nonce |-> -1], [kind |-> "error", nonce |-> -1]}

\* A cgminer_mine that hands on the nonce the device reports.
CgminerResult_TrustsDevice(reply_nonce, mined) ==
    IF reply_nonce >= 0 THEN [found |-> TRUE, nonce |-> reply_nonce] ELSE mined

\* What cgminer_mine returns: "return await self.software_mine(...)" on line
\* 139 and again on line 143; the reply of the device is only logged.
CgminerResult(reply_nonce, mined) == mined

\* cgminer_mine after summary(): on every path (the reply is logged, or the
\* except clause is entered) the search is software_mine's.
CgminerMine(reply) ==
    /\ mpc = "querying"
    /\ device_failed' = (device_failed \/ reply.kind = "error")
    /\ EnterSoftwareMine([mlog EXCEPT !.device_contacts = @ + 1, !.device_nonce = reply.nonce])
    /\ UNCHANGED <<use_software_mining, total_hashes, shares_found, m_scrypt, req, elapsed, served>>
    /\ UNCHANGED <<vvars, cvars, avars, rvars>>

\* software_mine is called directly, as tests/test_zeus_miner.py:78-100 call
\* it; no synapse is involved.
Budgets == {0, 4}

DirectHeaders == {h \in HeaderHexes : h.len = 152 /\ h.chars = "hex"}

DirectTargets == {t \in TargetHexes : t.len = 64 /\ t.chars = "hex"}

SoftwareMineCall(header_hex, target_hex, budget) ==
    /\ mpc = "idle"
    /\ served < MaxRequests
    /\ served' = served + 1
    /\ req' = [via |-> "direct", header_hex |-> header_hex, target_hex |-> target_hex,
               timeout |-> budget]
    /\ elapsed' = 0
    /\ nonce' = 0
    /\ resp' = NoResponse
    /\ UNCHANGED <<use_software_mining, total_hashes, shares_found, m_scrypt, device_failed>>
    /\ UNCHANGED <<vvars, cvars, avars, rvars>>
    /\ LET log == NewLog(total_hashes, shares_found, device_failed)
       IN  IF FromHexOk(header_hex, target_hex)
           THEN mpc' = "mining" /\ mlog' = log
           ELSE mpc' = "idle" /\ mlog' = [log EXCEPT !.done = TRUE, !.raised = TRUE]

\* The search returns to forward, which fills the response in, or to the
\* direct caller.
ReturnFromMine(found, found_nonce, log, minute_passed, hashes) ==
    /\ mpc' = "idle"
    /\ nonce' = nonce
    /\ mlog' = [log EXCEPT !.done = TRUE, !.found = found, !.found_nonce = found_nonce]
    /\ IF req.via = "forward"
       THEN /\ LET mined == [found |-> found, nonce |-> found_nonce]
                   result == IF log.device_contacts > 0
                             THEN CgminerResult(log.device_nonce, mined)
                             ELSE mined
               IN  resp' = MinedResponse(result.found, result.nonce, elapsed)
            /\ total_hashes' = LoggedHashes(hashes, minute_passed)
       ELSE /\ resp' = resp
            /\ total_hashes' = hashes

\* A search that never hands control back.
YieldsAfter_Never(n) == FALSE

\* if nonce % 1000 == 0: await asyncio.sleep(0.001) (lines 116-117)
YieldsAfter(n) == n % yield_interval = 0

\* One pass of the loop of software_mine (lines 107-118); since_yield
\* counts the hashes made since the search last awaited.
MineStep(minute_passed) ==
    /\ mpc = "mining"
    /\ LoopContinues(nonce, elapsed - mlog.mine_start, req.timeout)
    /\ LET log == [mlog EXCEPT !.attempts = @ + 1,
                            !.since_yield = @ + 1,
                            !.late_attempts =
                                IF elapsed - mlog.mine_start >= req.timeout THEN @ + 1 ELSE @]
       IN  IF VerifyShareTarget(req.header_hex.bytes, nonce, req.target_hex.bytes, m_scrypt)
           THEN /\ shares_found' = shares_found + 1
                /\ ReturnFromMine(TRUE, nonce, log, minute_passed, total_hashes)
           ELSE /\ nonce' = NextNonce(nonce)
                /\ total_hashes' = total_hashes + 1
                /\ mlog' = IF YieldsAfter(NextNonce(nonce))
                           THEN [log EXCEPT !.since_yield = 0, !.yields = @ + 1]
                           ELSE log
                /\ UNCHANGED <<shares_found, mpc, resp>>
    /\ UNCHANGED <<use_software_mining, m_scrypt, req, elapsed, served, device_failed>>
    /\ UNCHANGED <<vvars, cvars, avars, rvars>>

\* The loop ends without a share (lines 120-121).
MineExit(minute_passed) ==
    /\ mpc = "mining"
    /\ ~LoopContinues(nonce, elapsed - mlog.mine_start, req.timeout)
    /\ ReturnFromMine(FALSE, 0, mlog, minute_passed, total_hashes)
    /\ UNCHANGED <<use_software_mining, shares_found, m_scrypt, req, elapsed, served, device_failed>>
    /\ UNCHANGED <<vvars, cvars, avars, rvars>>

\* Time passes while the device is queried or the search runs.
TickSteps == {4}

Tick ==
    /\ mpc \in {"querying", "mining"}
    /\ \E d \in TickSteps :
          /\ elapsed + d <= MaxElapsed
          /\ elapsed' = elapsed + d
    /\ UNCHANGED <<use_software_mining, total_hashes, shares_found, m_scrypt, mpc, req,
                   nonce, resp, served, device_failed, mlog>>
    /\ UNCHANGED <<vvars, cvars, avars, rvars>>

\* The state after Miner.__init__: the device answered summary() or did not.
MInit ==
    /\ use_software_mining \in BOOLEAN
    /\ total_hashes = 0
    /\ shares_found = 0
    /\ m_scrypt \in BOOLEAN
    /\ mpc = "idle"
    /\ req = NoRequest
    /\ nonce = 0
    /\ elapsed = 0
    /\ resp = NoResponse
    /\ served = 0
    /\ device_failed = use_software_mining
    /\ mlog = NewLog(0, 0, FALSE)

MinerNext ==
    \/ \E h \in HeaderHexes, t \in TargetHexes : ReceiveForward(h, t)
    \/ \E reply \in DeviceReplies : CgminerMine(reply)
    \/ \E h \in DirectHeaders, t \in DirectTargets, b \in Budgets :
          SoftwareMineCall(h, t, b)
    \/ \E m \in BOOLEAN : MineStep(m)
    \/ \E m \in BOOLEAN : MineExit(m)
    \/ Tick

\* A miner alone: the validator's part of the state stays as constructed.
MinerInit ==
    VInit /\ v_scrypt /\ MInit /\ CInit /\ AInit /\ metagraph = FixtureMetagraph /\ RInit

MinerSpec == MinerInit /\ [][MinerNext]_vars

\* The event loop resumes the coroutine after each asyncio.sleep, so the loop
\* of software_mine keeps running until it returns.
MinerFairSpec ==
    /\ MinerSpec
    /\ WF_vars(\E m \in BOOLEAN : MineStep(m) \/ MineExit(m))

\* A validator alone: the miner's part of the state stays as constructed.
Init ==
    /\ VInit /\ MInit /\ use_software_mining /\ m_scrypt
    /\ CInit /\ AInit /\ metagraph = FixtureMetagraph
    /\ RInit

\* Long runs of uniform rounds, past the cap of the history.
HistoryRound ==
    /\ vlog.round < MaxHistoryRounds
    /\ regime # EndRegime
    /\ \E challenge_type \in challenge_types, rnd \in HeaderSeeds, common \in UniformKinds :
           /\ regime \in {NoRegime, common}
           /\ Forward(challenge_type, rnd, [u \in Workers |-> common])

HistorySpec == Init /\ [][HistoryRound]_vars

\* Rounds of the standard variant in which worker 0 answers in any way and
\* the others solve honestly.
ProbeRound ==
    /\ vlog.round < MaxProbeRounds
    /\ \E kind \in ProbeKinds :
           Forward("standard", 0,
                   [u \in Workers |-> IF u = 0 THEN kind
                                      ELSE [k |-> "honest", n |-> 0, l |-> 3000]])

\* verify_mining_result is called on a challenge and a response of any
\* kind, as tests/test_zeus_validator.py:138-204 call it on a new validator.
DirectChallenges ==
    {[challenge_type |-> "standard", header |-> [rnd |-> r, bits |-> initial_base_difficulty],
      target |-> t, base_after |-> initial_base_difficulty] :
        r \in HeaderSeeds, t \in Targets}

VerifyDirect(challenge, kind) ==
    /\ challenge_history = <<>>
    /\ vlog.op = "init"
    /\ \E r \in {ResponseOf(kind, challenge, v_scrypt)} :
          /\ r.present
          /\ vlog' = [vlog EXCEPT !.op = "verify", !.challenge = challenge,
                                  !.responses = [u \in Workers |-> r],
                                  !.verifications =
                                      [i \in 1 .. NumWorkers |->
                                          VerifyMiningResult(challenge, r, v_scrypt)]]
    /\ UNCHANGED <<base_difficulty, challenge_history, miner_performance,
                   current_challenge_type, v_scrypt, regime, fed>>
    /\ UNCHANGED <<mvars, cvars, avars, rvars>>

ProbeNext ==
    \/ ProbeRound
    \/ \E challenge \in DirectChallenges, kind \in ProbeKinds : VerifyDirect(challenge, kind)

ProbeSpec == Init /\ [][ProbeNext]_vars

\* A worker and a validator together: software_mine has returned (n, true)
\* for a header and a target, and the validator verifies the response
\* (nonce n, success true) for the challenge made of the same header and
\* target.  Each process hashes with what its own "import scrypt" gives.
VerifyMined ==
    /\ mpc = "idle"
    /\ req.via = "direct"
    /\ mlog.done /\ mlog.found
    /\ \E challenge \in {[challenge_type |-> "standard",
                           header |-> req.header_hex.bytes,
                           target |-> req.target_hex.bytes,
                           base_after |-> base_difficulty]} :
       \E r \in {Response(TRUE, TRUE, mlog.found_nonce, FALSE, 0)} :
           vlog' = [vlog EXCEPT !.op = "verify_mined", !.challenge = challenge,
                                !.responses = [u \in Workers |-> r],
                                !.verifications =
                                    [i \in 1 .. NumWorkers |->
                                        VerifyMiningResult(challenge, r, v_scrypt)]]
    /\ UNCHANGED <<base_difficulty, challenge_history, miner_performance,
                   current_challenge_type, v_scrypt, regime, fed>>
    /\ UNCHANGED <<mvars, cvars, avars, rvars>>

AgreeNext ==
    \/ \E h \in DirectHeaders, t \in DirectTargets, b \in Budgets :
          SoftwareMineCall(h, t, b)
    \/ \E m \in BOOLEAN : MineStep(m)
    \/ \E m \in BOOLEAN : MineExit(m)
    \/ Tick
    \/ VerifyMined

AgreeInit ==
    /\ VInit /\ MInit /\ use_software_mining
    /\ CInit /\ AInit /\ metagraph = FixtureMetagraph
    /\ RInit

AgreeSpec == AgreeInit /\ [][AgreeNext]_vars

\* The access control of a miner alone, with any registry.
AccessInit ==
    /\ VInit /\ v_scrypt /\ MInit /\ use_software_mining /\ m_scrypt
    /\ CInit /\ AInit /\ metagraph \in Metagraphs
    /\ RInit

AccessSpec == AccessInit /\ [][AccessNext]_vars

\* A device client alone.
ClientSpec == Init /\ [][ClientNext]_vars

\* Rounds followed step by step, overlapping or not.
StepSpec == Init /\ [][StepNext]_vars

Round ==
    /\ Len(challenge_history) < MaxLongRounds
    /\ regime # EndRegime
    /\ \E challenge_type \in challenge_types, rnd \in HeaderSeeds, common \in UniformKinds :
       \E deviants \in {D \in SUBSET Workers : Cardinality(D) <= MaxDeviants} :
       \E answers \in [deviants -> ResponseKinds] :
           /\ regime \in {NoRegime, common}
           /\ Forward(challenge_type, rnd, RoundKinds(common, deviants, answers))

Next == Round

Spec == Init /\ [][Next]_vars

----------------------------------------------------------------------------
(* The difficulty controller fed with histories, as the tests of            *)
(* tests/test_zeus_validator.py:47-75 feed it: challenge_history is         *)
(* assigned, then get_current_difficulty is called.                         *)

FedEntry(rate_tenths, seconds) ==
    [timestamp |-> 0,
     success_rate |-> [num |-> rate_tenths, den |-> 10],
     avg_response_time |-> seconds * ArtScale]

Repeat(e, n) == [i \in 1 .. n |-> e]

FedHistories ==
    {Repeat(FedEntry(9, 3), 5),                                  \* 0.9, 3.0 s
     Repeat(FedEntry(1, 18), 5),                                 \* 0.1, 18.0 s
     Repeat(FedEntry(5, 8), 5),                                  \* in neither band
     Repeat(FedEntry(9, 3), 4),                                  \* too short
     Repeat(FedEntry(9, 3), 12),
     Repeat(FedEntry(10, 3), 10) \o Repeat(FedEntry(8, 3), 10)}  \* 0.9 overall, 0.8 lately

Direction(before, after) == IF after > before THEN 1 ELSE IF after < before THEN -1 ELSE 0

FeedAndAdjust(history) ==
    LET returned == GetCurrentDifficulty(base_difficulty, history)
        dir == Direction(base_difficulty, returned)
        turn == fed.dir # 0 /\ dir # 0 /\ dir # fed.dir
    IN  /\ turn => fed.turns < MaxTurns
        /\ challenge_history' = history
        /\ base_difficulty' = returned
        /\ fed' = [turns |-> fed.turns + (IF turn THEN 1 ELSE 0),
                   dir |-> IF dir # 0 THEN dir ELSE fed.dir]
        /\ vlog' = [op |-> "feed", base_before |-> base_difficulty, returned |-> returned]
        /\ UNCHANGED <<miner_performance, current_challenge_type, v_scrypt, regime>>
        /\ UNCHANGED <<mvars, cvars, avars, rvars>>

FeedNext == \E history \in FedHistories : FeedAndAdjust(history)

FeedSpec == Init /\ [][FeedNext]_vars

----------------------------------------------------------------------------
(* Claims about the validator *)

TotalBefore(u) ==
    IF u \in DOMAIN vlog.mp_before THEN vlog.mp_before[u].total_challenges ELSE 0

SuccessfulBefore(u) ==
    IF u \in DOMAIN vlog.mp_before THEN vlog.mp_before[u].successful_challenges ELSE 0

ScoredInvalid(u) ==
    /\ vlog.op = "forward"
    /\ vlog.responses[u].present
    /\ ~vlog.verifications[u + 1].valid

\* C1: scoring a verification result whose valid flag is false returns 0.0,
\* leaves the worker's successful_challenges unchanged and increments its
\* total_challenges by exactly 1, creating the record if it did not exist.
C1_InvalidResultCounted ==
    \A u \in Workers :
        ScoredInvalid(u) =>
            /\ vlog.scores[u + 1] = 0
            /\ u \in DOMAIN miner_performance
            /\ miner_performance[u].total_challenges = TotalBefore(u) + 1
            /\ miner_performance[u].successful_challenges = SuccessfulBefore(u)

\* C2: the difficulty encoded in the first 4 bytes of the target of every
\* challenge create_challenge returns lies in [max_difficulty, min_difficulty].
C2_ChallengeDifficultyClamped ==
    vlog.op = "forward" =>
        /\ max_difficulty <= vlog.challenge.target.lo
        /\ vlog.challenge.target.lo <= min_difficulty

MeanRateIs(history, tenths) ==
    10 * SumRateUnits(history) = tenths * RateDen * Len(history)

MeanTimeIs(history, seconds) ==
    SumArt(history) = seconds * ArtScale * Len(history)

FedGood(history) ==
    Len(history) >= 5 /\ MeanRateIs(history, 9) /\ MeanTimeIs(history, 3)

FedBad(history) ==
    Len(history) >= 5 /\ MeanRateIs(history, 1) /\ MeanTimeIs(history, 18)

\* C3 as stated: from every reachable base_difficulty, on a history of at
\* least 5 rounds whose mean success rate is 0.9 and mean response time 3.0
\* (means taken as the code takes them, over the last 10 entries),
\* get_current_difficulty returns a value strictly smaller than the prior
\* base_difficulty; with 0.1 and 18.0, a strictly larger one.
C3_StrictlyMonotone ==
    vlog.op = "feed" /\ Len(challenge_history) >= 5 =>
        /\ FedGood(LastN(challenge_history, 10)) => vlog.returned < vlog.base_before
        /\ FedBad(LastN(challenge_history, 10)) => vlog.returned > vlog.base_before

\* C3 as amended: the value returned is strictly smaller (larger) and still
\* within the bounds, unless the prior base_difficulty is already
\* max_difficulty (min_difficulty), which is then returned unchanged.
C3_MonotoneUnlessClamped ==
    vlog.op = "feed" =>
        /\ FedGood(LastN(challenge_history, 10)) /\ Len(challenge_history) >= 5 =>
               \/ vlog.returned < vlog.base_before /\ vlog.returned >= max_difficulty
               \/ vlog.base_before = max_difficulty /\ vlog.returned = max_difficulty
        /\ FedBad(LastN(challenge_history, 10)) /\ Len(challenge_history) >= 5 =>
               \/ vlog.returned > vlog.base_before /\ vlog.returned <= min_difficulty
               \/ vlog.base_before = min_difficulty /\ vlog.returned = min_difficulty

C3_Witness ==
    /\ vlog.op = "feed"
    /\ Len(challenge_history) >= 5
    /\ FedGood(LastN(challenge_history, 10))
    /\ vlog.base_before = max_difficulty
    /\ vlog.returned = max_difficulty

GoodEntry(e) ==
    /\ 10 * e.success_rate.num > 8 * e.success_rate.den
    /\ e.avg_response_time < 5000 * ArtScale

\* C4: after at least 5 consecutive rounds in which more than 80% of the
\* workers returned a valid solution, each with latency_ms < 5000, the next
\* round's get_current_difficulty makes the difficulty harder (smaller, unless
\* already max_difficulty) and never easier.
C4_GoodRoundsMakeHarder ==
    (/\ vlog.op = "forward"
     /\ vlog.history_before >= 5
     /\ \A i \in (vlog.history_before - 4) .. vlog.history_before :
            GoodEntry(challenge_history[i]))
    => /\ vlog.challenge.header.bits <= vlog.base_before
       /\ vlog.base_before > max_difficulty => vlog.challenge.header.bits < vlog.base_before

----------------------------------------------------------------------------
(* Claims about the miner *)

HandledForward == mlog.done /\ req.via = "forward"

Malformed(header_hex, target_hex) ==
    \/ header_hex.len # 152
    \/ target_hex.len # 64
    \/ header_hex.chars # "hex"
    \/ target_hex.chars # "hex"

Rejected ==
    /\ ~resp.success
    /\ ~resp.has_nonce
    /\ ~mlog.raised
    /\ mlog.attempts = 0
    /\ total_hashes = mlog.hashes_before
    /\ shares_found = mlog.shares_before

\* C5: for any request whose header_hex is not exactly 152 hexadecimal
\* characters or whose target_hex is not exactly 64 (wrong length, empty, or
\* not hex at the right length), forward answers success=false, nonce=None,
\* raises nothing and makes no hash attempt.
C5_MalformedRequestRejected ==
    HandledForward /\ Malformed(req.header_hex, req.target_hex) => Rejected

\* The part of C5 that concerns lengths and characters bytes.fromhex refuses.
C5_RefusedRequestRejected ==
    (/\ HandledForward
     /\ \/ ~ValidLengths(req.header_hex, req.target_hex)
        \/ req.header_hex.chars = "other"
        \/ req.target_hex.chars = "other")
    => Rejected

\* C6: every response of forward has success true iff a nonce is present, a
\* present nonce within the nonce space, and latency_ms set and non-negative.
C6_ResponseWellFormed ==
    HandledForward =>
        /\ resp.success <=> resp.has_nonce
        /\ resp.has_nonce => 0 <= resp.nonce /\ resp.nonce < max_nonce
        /\ resp.has_latency
        /\ resp.latency_ms >= 0

C6_Witness ==
    /\ HandledForward
    /\ mlog.device_contacts > 0
    /\ device_failed
    /\ mlog.attempts > 0
    /\ ~resp.success
    /\ resp.latency_ms >= 1000 * forward_timeout

\* C7: when software_mine returns (n, true), n satisfies the target, no
\* smaller nonce does, and the nonces tried were 0, 1, ..., n in that order
\* with none skipped.
C7_SmallestNonce ==
    /\ mpc = "mining" => mlog.attempts = nonce
    /\ mlog.done /\ mlog.found =>
           /\ VerifyShareTarget(req.header_hex.bytes, mlog.found_nonce,
                                req.target_hex.bytes, m_scrypt)
           /\ \A m \in 0 .. (mlog.found_nonce - 1) :
                  ~VerifyShareTarget(req.header_hex.bytes, m, req.target_hex.bytes, m_scrypt)
           /\ mlog.attempts = mlog.found_nonce + 1

C7_Witness ==
    /\ mlog.done
    /\ mlog.found
    /\ mlog.found_nonce >= 2
    /\ Cardinality(Solutions(req.header_hex.bytes, req.target_hex.bytes, m_scrypt)) >= 2

\* The safety part of C8: no hash is attempted once the time since the start
\* of the search has reached the budget; a search for a target no nonce
\* satisfies returns (None, false), and does so because the budget or the
\* nonce space is used up; with a budget of 0 nothing is hashed.
C8_StopsAtBudget ==
    /\ mlog.late_attempts = 0
    /\ (/\ mlog.done /\ ~mlog.raised
        /\ FromHexOk(req.header_hex, req.target_hex)
        /\ req.via = "direct" \/ ValidLengths(req.header_hex, req.target_hex)
        /\ Solutions(req.header_hex.bytes, req.target_hex.bytes, m_scrypt) = {})
       => /\ ~mlog.found
          /\ nonce >= max_nonce \/ elapsed - mlog.mine_start >= req.timeout
    /\ req.via = "direct" /\ req.timeout = 0 => mlog.attempts = 0 /\ ~mlog.found

\* C8: software_mine always terminates, stops trying nonces at the time
\* budget (or when the nonce space is exhausted) and then returns
\* (None, false); with a budget of 0 it returns without any hash attempt.
C8_SoftwareMineTerminates ==
    /\ [] C8_StopsAtBudget
    /\ (mpc = "mining") ~> (mpc = "idle")

C8_Witness ==
    /\ mlog.done
    /\ req.via = "direct"
    /\ req.timeout > 0
    /\ Solutions(req.header_hex.bytes, req.target_hex.bytes, m_scrypt) = {}
    /\ mlog.attempts > 0
    /\ nonce < max_nonce
    /\ elapsed - mlog.mine_start >= req.timeout
    /\ ~mlog.found

\* C9: in device mode as in software mode, whatever the device replies,
\* forward answers success=true with nonce n only if verify_share_target of
\* the request's header, n and target is true in the worker, and the nonce
\* and success fields are those of the worker's own search.
C9_OnlyVerifiedSuccess ==
    HandledForward =>
        /\ resp.success =>
               /\ VerifyShareTarget(req.header_hex.bytes, resp.nonce,
                                    req.target_hex.bytes, m_scrypt)
               /\ mlog.found /\ resp.nonce = mlog.found_nonce
        /\ ~resp.success /\ ~mlog.found => ~resp.has_nonce

C9_Witness ==
    /\ HandledForward
    /\ mlog.device_contacts > 0
    /\ mlog.device_nonce >= 0
    /\ resp.success
    /\ resp.nonce # mlog.device_nonce

\* C10: once a device connection failure has occurred while a request was
\* handled, that request is answered without raising, and in every later
\* request the worker is in software mode and does not contact the device.
C10_SoftwareModeAfterFailure ==
    /\ device_failed /\ req.via = "forward" => ~mlog.raised
    /\ mlog.failed_before => mlog.device_contacts = 0

----------------------------------------------------------------------------
(* Claims about the device client *)

\* C11: _query_with_retry makes at most connection_retries attempts, returns
\* the result of the first successful attempt without a further attempt,
\* waits retry_delay between consecutive failed attempts but not after the
\* last, and raises only after all attempts failed, the error raised being
\* the last attempt's.
C11_BoundedRetry ==
    /\ clog.attempts <= connection_retries
    /\ clog.failed <= clog.attempts
    /\ cpc = "trying" =>
           clog.failed = clog.attempts /\ clog.waited = retry_delay * clog.attempts
    /\ clog.outcome # "none" => cpc = "idle"
    /\ clog.outcome = "returned" =>
           /\ clog.last.ok /\ clog.result = clog.last.value
           /\ clog.failed = clog.attempts - 1
           /\ clog.waited = retry_delay * clog.failed
    /\ clog.outcome = "raised" =>
           /\ clog.attempts = connection_retries
           /\ clog.failed = connection_retries
           /\ clog.waited = retry_delay * (connection_retries - 1)
           /\ clog.raised = [error |-> clog.last.error, n |-> connection_retries]

C11_Witness ==
    /\ clog.outcome = "raised"
    /\ clog.attempts = connection_retries
    /\ clog.waited = retry_delay * (connection_retries - 1)
    /\ clog.raised.n = connection_retries

ReadOfObjects ==
    /\ clog.attempts > 0
    /\ clog.read.kind = "data"
    /\ clog.read.data = Concat(clog.read.sent)

ParsedAsSent ==
    LET sent == clog.read.sent
    IN  /\ Len(sent) >= 2 => clog.last.ok /\ clog.last.value = JsonList(sent)
        /\ Len(sent) = 1 => clog.last.ok /\ clog.last.value = JsonObject(sent[1])
        /\ Len(sent) = 0 => ~clog.last.ok

\* C12: a read of k >= 2 JSON objects concatenated without separator makes
\* _query return the list of exactly these k objects in order; a read of one
\* object, that object; an empty read, an error.
C12_ConcatenatedObjectsParsed == ReadOfObjects => ParsedAsSent

\* The part of C12 for objects none of whose strings contains "}{".
C12_SeamFreeObjectsParsed ==
    (ReadOfObjects /\ \A i \in 1 .. Len(clog.read.sent) : ~ContainsSeam(clog.read.sent[i]))
    => ParsedAsSent

----------------------------------------------------------------------------
(* Claims about access control *)

IsRegistered(requester) ==
    /\ requester.dendrite /\ requester.has_hotkey
    /\ \E i \in 1 .. Len(metagraph.hotkeys) : metagraph.hotkeys[i] = requester.hotkey

UidOf(requester) == CHOOSE i \in 1 .. Len(metagraph.hotkeys) : metagraph.hotkeys[i] = requester.hotkey

\* C13: blacklist accepts iff the requester has an identity, is registered,
\* holds validator authorization and has stake >= 1000; otherwise the reason
\* is decided in the order missing identity, unregistered, non-validator,
\* insufficient stake.
C13_BlacklistDecision ==
    alog.op = "blacklist" =>
        LET r == alog.requester
        IN  /\ ~alog.blacklisted <=>
                   /\ IsRegistered(r)
                   /\ metagraph.validator_permit[UidOf(r)]
                   /\ metagraph.S[UidOf(r)] >= min_stake
            /\ alog.reason =
                   IF ~r.dendrite \/ ~r.has_hotkey THEN "Missing dendrite or hotkey"
                   ELSE IF ~IsRegistered(r) THEN "Unrecognized hotkey"
                   ELSE IF ~metagraph.validator_permit[UidOf(r)] THEN "Non-validator hotkey"
                   ELSE IF metagraph.S[UidOf(r)] < min_stake THEN "Insufficient stake"
                   ELSE "Validator authorized"

C13_Witness ==
    /\ alog.op = "blacklist"
    /\ ~alog.blacklisted
    /\ IsRegistered(alog.requester)
    /\ metagraph.S[UidOf(alog.requester)] = min_stake
    /\ \E i \in 1 .. Len(metagraph.hotkeys) :
           ~metagraph.validator_permit[i] /\ metagraph.S[i] < min_stake

\* C14: priority is 0 for a requester without identity or not registered,
\* 1.5 times the stake for a registered holder of validator authorization,
\* the stake itself for another registered requester; it never raises.
C14_PriorityValue ==
    alog.op = "priority" =>
        LET r == alog.requester
        IN  /\ ~alog.raised
            /\ ~IsRegistered(r) => alog.halves = 0
            /\ IsRegistered(r) /\ metagraph.validator_permit[UidOf(r)] =>
                   alog.halves = 3 * metagraph.S[UidOf(r)]
            /\ IsRegistered(r) /\ ~metagraph.validator_permit[UidOf(r)] =>
                   alog.halves = 2 * metagraph.S[UidOf(r)]

C14_Witness ==
    /\ alog.op = "priority"
    /\ IsRegistered(alog.requester)
    /\ metagraph.validator_permit[UidOf(alog.requester)]
    /\ metagraph.S[UidOf(alog.requester)] = 1500
    /\ alog.halves = 4500

----------------------------------------------------------------------------
(* Claims about verification, rounds and history *)

Verified(u) == vlog.op \in {"forward", "verify"} /\ vlog.responses[u].present

\* C15: verifying a response with success=false or without nonce gives
\* valid=false, the error "No solution claimed", every flag false and
\* efficiency_score 0; a response claiming success with nonce 0 is not
\* treated as one without solution.
C15_NoSolutionClaimed ==
    \A u \in Workers :
        Verified(u) =>
            LET r == vlog.responses[u]
                ver == vlog.verifications[u + 1]
            IN  /\ ~r.success \/ ~r.has_nonce =>
                       ver = [BlankVerification EXCEPT !.error = NoSolutionClaimed]
                /\ r.success /\ r.has_nonce /\ r.nonce = 0 =>
                       ver.error # NoSolutionClaimed /\ ver.hash_correct

C15_Witness ==
    /\ Verified(0)
    /\ vlog.responses[0].has_nonce /\ ~vlog.responses[0].success
    /\ vlog.verifications[1].error = NoSolutionClaimed
    /\ vlog.tally[0].valid > 0

\* C16: valid equals nonce_valid and target_met and hash_correct in every
\* result; a claimed solution that meets the target is valid also when its
\* latency is absent or outside 100..15000 ms, latency_reasonable then being
\* false, and one that misses the target is invalid whatever its latency.
C16_ValidIgnoresLatency ==
    \A u \in Workers :
        Verified(u) =>
            LET r == vlog.responses[u]
                ver == vlog.verifications[u + 1]
                in_band == r.has_latency /\ 100 <= r.latency_ms /\ r.latency_ms <= 15000
                claimed == r.success /\ r.has_nonce /\ 0 <= r.nonce /\ r.nonce < max_nonce
                meets == LeqLE(HashFullHeader(vlog.challenge.header, r.nonce, v_scrypt),
                               vlog.challenge.target)
            IN  /\ ver.valid <=> (ver.nonce_valid /\ ver.target_met /\ ver.hash_correct)
                /\ claimed /\ meets => ver.valid /\ (ver.latency_reasonable <=> in_band)
                /\ claimed /\ ~meets => ~ver.valid

C16_Witness ==
    /\ vlog.op = "forward"
    /\ Verified(0)
    /\ vlog.verifications[1].valid
    /\ ~vlog.responses[0].has_latency
    /\ ~vlog.verifications[1].latency_reasonable
    /\ vlog.scores[1] > 0

\* C17: a response claiming success with a nonce outside the nonce space is
\* verified without an exception reaching the caller (the error is recorded
\* in the result), as valid=false and nonce_valid=false; the worker is
\* scored 0 and the other workers of the round are still verified
\* and scored.
C17_OutOfRangeNonce ==
    \A u \in Workers :
        (/\ Verified(u)
         /\ vlog.responses[u].success /\ vlog.responses[u].has_nonce
         /\ vlog.responses[u].nonce < 0 \/ vlog.responses[u].nonce >= max_nonce)
        => /\ ~vlog.verifications[u + 1].valid
           /\ ~vlog.verifications[u + 1].nonce_valid
           /\ vlog.verifications[u + 1].error # "None"
           /\ vlog.op = "forward" =>
               /\ vlog.scores[u + 1] = 0
               /\ Len(vlog.scores) = NumWorkers
               /\ \A w \in Workers \ {u} :
                      vlog.verifications[w + 1] =
                          VerifyMiningResult(vlog.challenge, vlog.responses[w], v_scrypt)

C17_Witness ==
    /\ vlog.op = "forward"
    /\ Verified(0)
    /\ vlog.responses[0].success /\ vlog.responses[0].nonce >= max_nonce
    /\ vlog.scores[1] = 0
    /\ vlog.verifications[2].valid /\ vlog.scores[2] > 0
    /\ vlog.verifications[3].valid /\ vlog.scores[3] > 0

TimeoutOfVariant(challenge_type) ==
    CASE challenge_type = "time_pressure" -> 6
      [] challenge_type = "high_difficulty" -> 20
      [] challenge_type \in {"standard", "efficiency_test"} -> 12

C19_HistoryIsRecentWindow ==
    vlog.op = "forward" =>
        /\ Len(challenge_history) = Min(vlog.history_before + 1, history_cap)
        /\ Len(challenge_history) = Min(vlog.round, history_cap)
        /\ \A i \in 1 .. Len(challenge_history) :
               challenge_history[i].timestamp = vlog.round - Len(challenge_history) + i

C19_Witness ==
    /\ vlog.op = "forward"
    /\ Len(challenge_history) = history_cap
    /\ challenge_history[1].timestamp >= 3
    /\ challenge_history[history_cap].timestamp = vlog.round

\* C20: a valid result gets the historical bonus iff the worker's running
\* success rate before the round, valid results over all its scored
\* responses of earlier rounds, exceeds 0.8; none without an earlier scored
\* response.
C20_HistoricalBonusByRunningRate ==
    vlog.op = "forward" =>
        \A u \in Workers :
            vlog.verifications[u + 1].valid =>
                (vlog.historical[u + 1] <=>
                    /\ vlog.tally_before[u].scored > 0
                    /\ 10 * vlog.tally_before[u].valid > 8 * vlog.tally_before[u].scored)

----------------------------------------------------------------------------
(* Claims about the challenge, the round and the records *)

\* C21: the difficulty in the first 4 bytes of the target of every
\* high-difficulty challenge is at most the base difficulty before the call
\* of create_challenge, divided by 4 (rounded down).
C21_HighDifficultyQuartersBase ==
    vlog.op = "forward" /\ vlog.challenge.challenge_type = "high_difficulty" =>
        vlog.challenge.target.lo <= vlog.base_before \div 4

\* C22: within a round no performance record is written before every
\* response of that round has been verified: when a pass of the loop has
\* changed miner_performance, every response present in the round's list has
\* already been through verify_mining_result.
C22_RecordsWrittenAfterAllVerified ==
    rlog.op = "evaluate" /\ miner_performance # rlog.mp_before =>
        \A u \in Workers : rlog.call.responses[u].present => u < rlog.call.uid

LastEntry == challenge_history[Len(challenge_history)]

\* C23: the scores a round returns hold one entry for each worker 0..N-1;
\* a worker whose response is missing gets 0 without being verified and
\* without a change of any record, still counts in the denominator of the
\* round's success rate, and the round queries the workers once.
C23_MissingResponseScoredZero ==
    /\ rlog.op = "evaluate" /\ ~rlog.call.responses[rlog.call.uid - 1].present =>
           /\ rlog.call.totals.scores[rlog.call.uid] = 0
           /\ rlog.call.totals.verifications[rlog.call.uid] = BlankVerification
           /\ miner_performance = rlog.mp_before
    /\ rlog.op = "evaluate" =>
           Len(rlog.call.totals.scores) = rlog.call.uid
    /\ rlog.op = "finish" =>
           /\ Len(rlog.call.totals.scores) = NumWorkers
           /\ \A u \in Workers :
                  ~rlog.call.responses[u].present => rlog.call.totals.scores[u + 1] = 0
           /\ LastEntry.success_rate =
                  [num |-> Cardinality({u \in Workers :
                                           rlog.call.totals.verifications[u + 1].valid}),
                   den |-> NumWorkers]
           /\ rlog.call.queries = 1

C23_Witness ==
    /\ rlog.op = "finish"
    /\ ~rlog.call.responses[1].present
    /\ rlog.call.totals.scores[1] > 0
    /\ rlog.call.totals.scores[2] = 0
    /\ 1 \notin DOMAIN miner_performance
    /\ LastEntry.success_rate = [num |-> 1, den |-> NumWorkers]

\* C24: for every variant a round selects, the budget a worker's forward
\* gives its nonce search (forward_timeout, the timeout of every request
\* ReceiveForward takes) is less than the timeout of the round's dispatch.
C24_BudgetBelowRoundTimeout ==
    vlog.op = "forward" => forward_timeout < vlog.timeout

\* C25: a search makes at most yield_interval hashes in a row without
\* awaiting (1000 in the code), and every hash is preceded by a look at the
\* deadline: none is made once the budget is used up.
C25_YieldsEveryInterval ==
    /\ mlog.since_yield <= yield_interval
    /\ mpc = "mining" =>
           /\ mlog.since_yield < yield_interval
           /\ mlog.yields = nonce \div yield_interval
    /\ mlog.late_attempts = 0

C25_Witness ==
    /\ mlog.done
    /\ ~mlog.found
    /\ mlog.attempts = max_nonce
    /\ mlog.yields >= 2

\* The record worker u had before the last step; a worker without record
\* counts as one with all fields 0.
RecordBefore(u) ==
    IF u \in DOMAIN rlog.mp_before THEN rlog.mp_before[u]
    ELSE [total_challenges |-> 0, successful_challenges |-> 0, avg_latency |-> 0,
          total_score |-> 0]

ScoredValid ==
    /\ rlog.op = "evaluate"
    /\ rlog.call.totals.verifications[rlog.call.uid].valid

\* C26: scoring a valid result of worker u adds 1 to u's total_challenges
\* and successful_challenges, sets success_rate to their quotient, adds the
\* score returned, which is at least 1.0, to total_score, sets avg_latency
\* to (old + latency) / 2 when the latency is not zero, and changes no other
\* worker's record, nor the history, nor base_difficulty; no step ever
\* removes a record.
C26_ValidResultUpdatesOwnRecord ==
    /\ DOMAIN rlog.mp_before \subseteq DOMAIN miner_performance
    /\ ScoredValid =>
           LET u == rlog.call.uid - 1
               r == rlog.call.responses[u]
               score == rlog.call.totals.scores[rlog.call.uid]
               old == RecordBefore(u)
               new == miner_performance[u]
           IN  /\ DOMAIN miner_performance = DOMAIN rlog.mp_before \cup {u}
               /\ new.total_challenges = old.total_challenges + 1
               /\ new.successful_challenges = old.successful_challenges + 1
               /\ new.success_rate.den > 0
               /\ new.success_rate.num * new.total_challenges =
                      new.successful_challenges * new.success_rate.den
               /\ score >= 1000000
               /\ new.total_score = old.total_score + score
               /\ r.has_latency /\ r.latency_ms # 0 =>
                      new.avg_latency = (old.avg_latency + 1000 * r.latency_ms) \div 2
               /\ ~r.has_latency => new.avg_latency = old.avg_latency
               /\ \A w \in DOMAIN rlog.mp_before \ {u} :
                      miner_performance[w] = rlog.mp_before[w]
               /\ challenge_history = rlog.history_before
               /\ base_difficulty = rlog.base_before

C26_Witness ==
    /\ ScoredValid
    /\ rlog.call.uid - 1 \in DOMAIN rlog.mp_before
    /\ rlog.mp_before[rlog.call.uid - 1].avg_latency > 0
    /\ rlog.call.responses[rlog.call.uid - 1].latency_ms > 0
    /\ Cardinality(DOMAIN rlog.mp_before) >= 2
    /\ challenge_history # <<>>

\* The means of the entries lie in neither band: not (rate > 0.8 and time
\* < 5.0), and neither rate < 0.3 nor time > 12.0.
InNeitherBand(entries) ==
    LET n == Len(entries)
        rate_above_08 == 10 * SumRateUnits(entries) > 8 * RateDen * n
        rate_below_03 == 10 * SumRateUnits(entries) < 3 * RateDen * n
        time_below_5 == SumArt(entries) < 5 * ArtScale * n
        time_above_12 == SumArt(entries) > 12 * ArtScale * n
    IN  /\ ~(rate_above_08 /\ time_below_5)
        /\ ~rate_below_03
        /\ ~time_above_12

C28_OneAdjustmentPerRound ==
    vlog.op = "forward" =>
        /\ vlog.challenge.header.bits = vlog.challenge.base_after
        /\ base_difficulty \in
               {vlog.base_before,
                Max(IntDivFactor(vlog.base_before), max_difficulty),
                Min(IntMulFactor(vlog.base_before), min_difficulty)}

\* C29: when calls of forward overlap, each round's valid results are scored
\* with the variant bonus of the challenge that round dispatched, and the
\* round's history entry names that round's own variant.
C29_OwnVariantScoresRound ==
    /\ ScoredValid =>
           LET u == rlog.call.uid - 1
           IN  rlog.call.totals.scores[rlog.call.uid] =
                   CalculateAdvancedScore(rlog.mp_before, rlog.call.challenge.challenge_type,
                                          u, rlog.call.totals.verifications[rlog.call.uid],
                                          rlog.call.responses[u]).score
    /\ rlog.op = "finish" =>
           LastEntry.challenge_type = rlog.call.challenge.challenge_type

\* C30: when software_mine has returned (n, true) for a header and a
\* target, verify_mining_result on the response (nonce n, success true) for
\* the same header and target gives target_met and valid, whichever hash
\* implementation the worker and the validator each have.
C30_SearchAndVerifyAgree ==
    vlog.op = "verify_mined" =>
        /\ vlog.verifications[1].target_met
        /\ vlog.verifications[1].valid

====
